---- MODULE Spec2Model ----
(***************************************************************************)
(* A model of src/app.py: the upload endpoint of draftq-upload.           *)
(*                                                                         *)
(* Strings are sequences of character tokens.  An optional value (Python's *)
(* None or a value) is a sequence of length at most one: <<>> is None and  *)
(* <<v>> is the value v.  The clock (the time fields) and the OPTIONS      *)
(* preflight route, which reads and writes no state, are left out.         *)
(*                                                                         *)
(* Beside some definitions stands a faulty variant of the same code (no    *)
(* trimming, a shared folder, ...): the properties below are also run      *)
(* against these variants, which they must reject.                         *)
(***************************************************************************)
EXTENDS Integers, Sequences, FiniteSets, TLC

(***************************************************************************)
(* Bounds of the model.                                                    *)
(***************************************************************************)
\* concurrent requests the server handles (thread-per-request slots)
MaxReqs == 2
\* identifiers uuid4 can mint before the model stops accepting uploads
MaxIds == 2
\* longest form field value, in characters
MaxFieldLen == 2
\* longest client-supplied file name, in character tokens
MaxFileNameLen == 4

Reqs == 1..MaxReqs
Ids == 1..MaxIds

None == <<>>
Some(v) == <<v>>

(***************************************************************************)
(* Configuration (src/app.py 20-38).                                       *)
(***************************************************************************)
MAX_FILE_MB == 30
MAX_CONTENT_LENGTH == MAX_FILE_MB * 1024 * 1024
ALLOWED_EXTS == { <<".", "pdf">> }
UPLOAD_DIR == <<"data", "uploads">>

\* the four object-storage settings, in the order USE_S3 lists them
Settings == <<"S3_BUCKET_NAME", "AWS_DEFAULT_REGION", "AWS_ACCESS_KEY_ID", "AWS_SECRET_ACCESS_KEY">>
\* os.environ.get(k): None when unset, else the string, which may be empty
EnvValues == {None, Some(""), Some("v")}

\* Python truthiness of an optional string
Truthy(opt) == opt # None /\ opt[1] # ""

\* faulty variant: any(...) in place of all(...)
ComputeUseS3Any(e, lib) == (\E i \in 1..Len(Settings) : Truthy(e[Settings[i]])) /\ lib
\* all([S3_BUCKET, S3_REGION, S3_ACCESS_KEY, S3_SECRET_KEY, boto3 is not None])
ComputeUseS3(e, lib) == (\A i \in 1..Len(Settings) : Truthy(e[Settings[i]])) /\ lib

(***************************************************************************)
(* String helpers.                                                         *)
(***************************************************************************)
RECURSIVE SeqsUpTo(_, _)
\* every sequence over alphabet of length at most n
SeqsUpTo(alphabet, n) ==
  IF n = 0 THEN { <<>> }
  ELSE LET shorter == SeqsUpTo(alphabet, n - 1)
       IN shorter \cup { Append(s, c) : s \in shorter, c \in alphabet }

IsSpace(c) == c = " "

RECURSIVE LStrip(_)
LStrip(s) == IF s # <<>> /\ IsSpace(Head(s)) THEN LStrip(Tail(s)) ELSE s
RECURSIVE RStrip(_)
RStrip(s) == IF s # <<>> /\ IsSpace(s[Len(s)]) THEN RStrip(SubSeq(s, 1, Len(s) - 1)) ELSE s
\* faulty variant: the value is not trimmed
StripNot(s) == s
\* str.strip()
Strip(s) == RStrip(LStrip(s))

\* (request.form.get(k) or "").strip()
FormField(form, k) == Strip(IF form[k] = None THEN <<>> ELSE form[k][1])

\* str.lower() on tokens
LowerTok(c) == IF c = "PDF" THEN "pdf" ELSE c
Lower(s) == [i \in 1..Len(s) |-> LowerTok(s[i])]

\* last index of token c in s, 0 when absent (str.rfind + 1)
RECURSIVE RFind(_, _)
RFind(s, c) == IF s = <<>> THEN 0
               ELSE IF s[Len(s)] = c THEN Len(s)
               ELSE RFind(SubSeq(s, 1, Len(s) - 1), c)

\* posixpath.splitext(p)[1]: the extension starts at the last dot that follows
\* the last separator, unless only dots precede it in the file name
SplitExt(p) ==
  LET sepIndex == RFind(p, "/")
      dotIndex == RFind(p, ".")
  IN IF dotIndex > sepIndex
        /\ \E i \in (sepIndex + 1)..(dotIndex - 1) : p[i] # "."
     THEN SubSeq(p, dotIndex, Len(p))
     ELSE <<>>

\* faulty variant: the name only has to end in "pdf"
allowed_fileext_endswith(filename) == filename # <<>> /\ LowerTok(filename[Len(filename)]) = "pdf"
\* allowed_fileext (src/app.py 57-59)
allowed_fileext(filename) == Lower(SplitExt(filename)) \in ALLOWED_EXTS

(***************************************************************************)
(* werkzeug.utils.secure_filename, on tokens.  Its first step, dropping    *)
(* what is not ASCII, changes no token of the alphabet used here.          *)
(***************************************************************************)
\* filename.replace(os.sep, " ")
ReplaceSep(s) == [i \in 1..Len(s) |-> IF s[i] = "/" THEN " " ELSE s[i]]

RECURSIVE JoinWords(_, _, _)
\* "_".join(filename.split()): gap says white space was just skipped, any says
\* a word was already emitted
JoinWords(s, gap, any) ==
  IF s = <<>> THEN <<>>
  ELSE IF IsSpace(Head(s)) THEN JoinWords(Tail(s), TRUE, any)
  ELSE (IF gap /\ any THEN <<"_">> ELSE <<>>) \o <<Head(s)>> \o JoinWords(Tail(s), FALSE, TRUE)

\* _filename_ascii_strip_re = [^A-Za-z0-9_.-]
SafeToks == {"a", "pdf", "PDF", ".", "_", "-"}
AsciiStrip(s) == SelectSeq(s, LAMBDA c : c \in SafeToks)

RECURSIVE LStripDots(_)
LStripDots(s) == IF s # <<>> /\ Head(s) \in {".", "_"} THEN LStripDots(Tail(s)) ELSE s
RECURSIVE RStripDots(_)
RStripDots(s) == IF s # <<>> /\ s[Len(s)] \in {".", "_"} THEN RStripDots(SubSeq(s, 1, Len(s) - 1)) ELSE s

\* secure_filename(filename) on a POSIX host
secure_filename(filename) == RStripDots(LStripDots(AsciiStrip(JoinWords(ReplaceSep(filename), FALSE, FALSE))))

\* file.filename or ""
FileNameOf(file) == IF file = None THEN <<>> ELSE file[1].filename
\* FileStorage.__bool__: bool(self.filename)
FileTruthy(file) == file # None /\ file[1].filename # <<>>

(***************************************************************************)
(* Requests a client can send.                                             *)
(***************************************************************************)
FieldChars == {" ", "j"}
FieldValues == {None} \cup { Some(s) : s \in SeqsUpTo(FieldChars, MaxFieldLen) }
FileToks == {"a", ".", "pdf", "PDF", " ", "/"}
PdfBytes == <<"%PDF">>
FileOf(filename) == Some([filename |-> filename, stream |-> PdfBytes])
Files == {None} \cup { FileOf(f) : f \in SeqsUpTo(FileToks, MaxFileNameLen) }
\* a body exactly at the limit and one a byte over it
ContentLengths == {MAX_CONTENT_LENGTH, MAX_CONTENT_LENGTH + 1}

Request(n, e, c, f, l) ==
  [form |-> [name |-> n, email |-> e, company |-> c], file |-> f, content_length |-> l]

PlainFields == {None, Some(<<"j">>)}
PlainFiles == {None, FileOf(<<"a", ".", "pdf">>), FileOf(<<"a", ".", "a">>)}
\* one part of the submission ranges over all its values while the others
\* range over an absent value and plain ones
Requests ==
  { Request(n, e, c, f, l) : n \in FieldValues, e \in PlainFields, c \in PlainFields,
                             f \in PlainFiles, l \in ContentLengths }
  \cup { Request(n, e, c, f, l) : n \in PlainFields, e \in FieldValues, c \in PlainFields,
                                  f \in PlainFiles, l \in ContentLengths }
  \cup { Request(n, e, c, f, l) : n \in PlainFields, e \in PlainFields, c \in FieldValues,
                                  f \in PlainFiles, l \in ContentLengths }
  \cup { Request(n, e, c, f, l) : n \in PlainFields, e \in PlainFields, c \in PlainFields,
                                  f \in Files, l \in ContentLengths }

\* the submissions of the concurrent specification: a valid one and one with
\* a disallowed extension
FewRequests ==
  { Request(Some(<<"j">>), Some(<<"j">>), None, FileOf(<<"a", ".", "pdf">>), MAX_CONTENT_LENGTH),
    Request(Some(<<"j">>), Some(<<"j">>), None, FileOf(<<"a", ".", "a">>), MAX_CONTENT_LENGTH) }

(***************************************************************************)
(* State.                                                                  *)
(***************************************************************************)
VARIABLES
  env,        \* os.environ at boot: setting -> optional string
  boto3,      \* whether "import boto3" succeeded
  USE_S3,     \* the module global computed at boot
  fs,         \* local file system: path -> [type, data]
  bucket,     \* the S3 bucket: key -> object
  minted,     \* identifiers uuid4 has returned
  pc,         \* per request: the call the handler makes next
  req,        \* per request: the submission being handled
  item_id,    \* per request: the handler's item_id
  exc,        \* per request: the last exception a call of the handler raised
  resp,       \* per request: the response sent
  healthResp  \* the last response of GET /api/health

vars == <<env, boto3, USE_S3, fs, bucket, minted, pc, req, item_id, exc, resp, healthResp>>
config == <<env, boto3, USE_S3>>
storage == <<fs, bucket>>

(***************************************************************************)
(* Storage locators (src/app.py 148-155, 190-198).                         *)
(***************************************************************************)
MetaName == <<"meta", ".", "txt">>
\* f"input{ext}"
StoredFilename(original) == <<"input">> \o Lower(SplitExt(original))

\* faulty variant: every request uses the folder of the same identifier
FolderOfFirst(id) == UPLOAD_DIR \o <<CHOOSE first \in Ids : \A other \in Ids : first <= other>>
\* os.path.join(UPLOAD_DIR, item_id)
Folder(id) == UPLOAD_DIR \o <<id>>
PdfPath(id, original) == Folder(id) \o <<StoredFilename(original)>>
MetaPath(id) == Folder(id) \o <<MetaName>>

\* f"uploads/{item_id}/"
BaseKey(id) == <<"uploads", id>>
PdfKey(id, original) == BaseKey(id) \o <<StoredFilename(original)>>
MetaKey(id) == BaseKey(id) \o <<MetaName>>

Dir == [type |-> "dir", data |-> <<>>]
File(data) == [type |-> "file", data |-> data]
\* a file the write to which was cut short
Partial == [type |-> "file", data |-> <<"partial">>]
Object(body, ctype) == [Body |-> body, ContentType |-> ctype, ACL |-> "private"]

\* the function f with x mapped to v
Put(f, x, v) == [y \in DOMAIN f \cup {x} |-> IF y = x THEN v ELSE f[y]]

\* os.makedirs(path, exist_ok=True): the directory and its missing parents
RECURSIVE MakeDirs(_, _)
MakeDirs(f, path) ==
  LET up == IF path = <<>> THEN f ELSE MakeDirs(f, SubSeq(path, 1, Len(path) - 1))
  IN IF path \in DOMAIN f THEN f ELSE Put(up, path, Dir)

(***************************************************************************)
(* The handler's locals, computed from the submission (src/app.py 130-148).*)
(***************************************************************************)
Name(q) == FormField(q.form, "name")
Email(q) == FormField(q.form, "email")
Company(q) == FormField(q.form, "company")
Original(q) == secure_filename(FileNameOf(q.file))

\* faulty variant: name and email change places
MetaTextSwapped(id, q) ==
  << <<"id", id>>, <<"name", Email(q)>>, <<"email", Name(q)>>, <<"company", Company(q)>>,
     <<"original_filename", Original(q)>>, <<"uploaded_at_utc", "utcnow">> >>
\* the metadata text: key=value lines in this order; the clock is not
\* modelled and the time stamp is the token "utcnow"
MetaText(id, q) ==
  << <<"id", id>>, <<"name", Name(q)>>, <<"email", Email(q)>>, <<"company", Company(q)>>,
     <<"original_filename", Original(q)>>, <<"uploaded_at_utc", "utcnow">> >>

(***************************************************************************)
(* Responses.                                                              *)
(***************************************************************************)
\* cors / add_cors (src/app.py 44-54): every response gets the CORS headers
cors(r) == [r EXCEPT !.cors = TRUE]

Response(status, json, state, error, detail) ==
  [status |-> status, json |-> json, state |-> state, error |-> error, detail |-> detail,
   id |-> None, storage |-> "", folder |-> None, pdf |-> None, meta |-> None,
   pdf_url |-> None, cors |-> FALSE]

\* jsonify({"status": "error", "error": ...}), 400
BadRequest(error) == cors(Response(400, TRUE, "error", error, None))
\* jsonify({"status": "error", "error": "S3 upload failed", "detail": str(e)}), 500
S3Failed(e) == cors(Response(500, TRUE, "error", "S3 upload failed", Some(e.cls)))
\* Flask's answer to an exception the handler lets through
InternalServerError == cors(Response(500, FALSE, "", "", None))
\* Flask's answer to a body over MAX_CONTENT_LENGTH
RequestEntityTooLarge == cors(Response(413, FALSE, "", "", None))

\* the 201 of the S3 branch (src/app.py 171-184)
CreatedS3(id, q, url) ==
  cors([Response(201, TRUE, "ok", "", None) EXCEPT
          !.id = Some(id), !.storage = "s3",
          !.pdf = Some(PdfKey(id, Original(q))), !.meta = Some(MetaKey(id)),
          !.pdf_url = url])
\* the 201 of the local branch (src/app.py 206-218)
CreatedLocal(id, q) ==
  cors([Response(201, TRUE, "ok", "", None) EXCEPT
          !.id = Some(id), !.storage = "local", !.folder = Some(Folder(id)),
          !.pdf = Some(PdfPath(id, Original(q))), !.meta = Some(MetaPath(id))])

(***************************************************************************)
(* Boot (src/app.py 20-38).                                                *)
(***************************************************************************)
Envs == [ {Settings[i] : i \in 1..Len(Settings)} -> EnvValues ]
CompleteEnv == [ k \in {Settings[i] : i \in 1..Len(Settings)} |-> Some("v") ]
EmptyEnv == [ k \in {Settings[i] : i \in 1..Len(Settings)} |-> None ]

Boot(envs, libs) ==
  /\ env \in envs
  /\ boto3 \in libs
  /\ USE_S3 = ComputeUseS3(env, boto3)
  \* os.makedirs(UPLOAD_DIR, exist_ok=True)
  /\ fs = MakeDirs(<<>> :> Dir, UPLOAD_DIR)
  /\ bucket = [k \in {} |-> Dir]
  /\ minted = {}
  /\ pc = [r \in Reqs |-> "idle"]
  /\ req = [r \in Reqs |-> None]
  /\ item_id = [r \in Reqs |-> None]
  /\ exc = [r \in Reqs |-> None]
  /\ resp = [r \in Reqs |-> None]
  /\ healthResp = None

(***************************************************************************)
(* GET /api/health (src/app.py 108-118); the time field is not modelled.   *)
(***************************************************************************)
health ==
  /\ healthResp' = Some([status |-> 200, state |-> "ok",
                         storage_mode |-> IF USE_S3 THEN "s3" ELSE "local",
                         bucket |-> IF USE_S3 THEN env["S3_BUCKET_NAME"] ELSE None])
  /\ UNCHANGED <<config, storage, minted, pc, req, item_id, exc, resp>>

(***************************************************************************)
(* POST /api/upload (src/app.py 127-218).                                  *)
(***************************************************************************)
\* a request arrives on a free worker
Receive(r, q) ==
  /\ pc[r] \in {"idle", "done"}
  /\ pc' = [pc EXCEPT ![r] = "upload"]
  /\ req' = [req EXCEPT ![r] = Some(q)]
  /\ item_id' = [item_id EXCEPT ![r] = None]
  /\ exc' = [exc EXCEPT ![r] = None]
  /\ resp' = [resp EXCEPT ![r] = None]
  /\ UNCHANGED <<config, storage, minted, healthResp>>

\* faulty variant: MAX_CONTENT_LENGTH is not set
NoLimit(q) == FALSE
\* reading request.form raises RequestEntityTooLarge for a body longer than
\* MAX_CONTENT_LENGTH
TooLarge(q) == q.content_length > MAX_CONTENT_LENGTH

\* if not name or not email or not file
MissingRequired(q) == Name(q) = <<>> \/ Email(q) = <<>> \/ ~FileTruthy(q.file)
\* if not original or not allowed_fileext(original)
NotPdf(q) == Original(q) = <<>> \/ ~allowed_fileext(Original(q))

\* uuid.uuid4(): an identifier never returned before
uuid4 == Ids \ minted

\* faulty variant: the metadata is written before the file
LocalOrderMetaFirst == <<"makedirs", "write_meta", "save">>
\* the order of the storage calls of each branch
LocalOrder == <<"makedirs", "save", "write_meta">>
S3Order == <<"s3_put_fileobj", "s3_put_bytes", "s3_presigned_get">>
Order == IF USE_S3 THEN S3Order ELSE LocalOrder
IndexOf(step) == CHOOSE i \in 1..Len(Order) : Order[i] = step
IsLast(step) == IndexOf(step) = Len(Order)

\* the handler ends with this response
Respond(r, response) ==
  /\ pc' = [pc EXCEPT ![r] = "done"]
  /\ resp' = [resp EXCEPT ![r] = Some(response)]

\* the call step returned: the handler goes on to the next call, or returns 201
Return(r, step, url) ==
  IF IsLast(step)
  THEN Respond(r, IF USE_S3 THEN CreatedS3(item_id[r][1], req[r][1], url)
                  ELSE CreatedLocal(item_id[r][1], req[r][1]))
  ELSE /\ pc' = [pc EXCEPT ![r] = Order[IndexOf(step) + 1]]
       /\ UNCHANGED resp

\* lines 130-155: parsing, validation and the new identifier
upload(r) ==
  /\ pc[r] = "upload"
  /\ LET q == req[r][1] IN
       IF TooLarge(q) THEN
         /\ Respond(r, RequestEntityTooLarge)
         /\ UNCHANGED <<item_id, minted>>
       ELSE IF MissingRequired(q) THEN
         /\ Respond(r, BadRequest("name, email, file required"))
         /\ UNCHANGED <<item_id, minted>>
       ELSE IF NotPdf(q) THEN
         /\ Respond(r, BadRequest("Only PDF files allowed"))
         /\ UNCHANGED <<item_id, minted>>
       ELSE
         \E id \in uuid4 :
           /\ item_id' = [item_id EXCEPT ![r] = Some(id)]
           /\ minted' = minted \cup {id}
           /\ pc' = [pc EXCEPT ![r] = Order[1]]
           /\ UNCHANGED resp
  /\ UNCHANGED <<config, storage, req, exc, healthResp>>

(***************************************************************************)
(* The local branch (src/app.py 188-218).  No exception is caught: a       *)
(* failed call ends the handler and Flask answers 500.                     *)
(***************************************************************************)
\* faulty variant: the directory of the request is removed when a call raises
CleanedUp(f, id) == [p \in {x \in DOMAIN f : Len(x) <= Len(UPLOAD_DIR) \/ x[Len(UPLOAD_DIR) + 1] # id} |-> f[p]]
\* what the file system holds once a call has raised: nothing is removed
LeftBehind(f, id) == f

\* the call raised OSError at the stage named
RaiseLocal(r, at, f) ==
  /\ exc' = [exc EXCEPT ![r] = Some([cls |-> "OSError", at |-> at])]
  /\ fs' = LeftBehind(f, item_id[r][1])
  /\ Respond(r, InternalServerError)

\* os.makedirs(folder, exist_ok=True)
makedirs(r) ==
  /\ pc[r] = "makedirs"
  /\ \E outcome \in {"ok", "raise"} :
       IF outcome = "ok"
       THEN /\ fs' = MakeDirs(fs, Folder(item_id[r][1]))
            /\ Return(r, "makedirs", None)
            /\ UNCHANGED exc
       ELSE RaiseLocal(r, "makedirs", fs)
  /\ UNCHANGED <<config, bucket, minted, req, item_id, healthResp>>

\* file.save(pdf_path): open the destination, then copy the stream into it
save(r) ==
  /\ pc[r] = "save"
  /\ LET path == PdfPath(item_id[r][1], Original(req[r][1])) IN
     \E outcome \in {"ok", "open", "write"} :
       CASE outcome = "ok" ->
              /\ fs' = Put(fs, path, File(req[r][1].file[1].stream))
              /\ Return(r, "save", None)
              /\ UNCHANGED exc
         [] outcome = "open" -> RaiseLocal(r, "save:open", fs)
         [] outcome = "write" -> RaiseLocal(r, "save:write", Put(fs, path, Partial))
  /\ UNCHANGED <<config, bucket, minted, req, item_id, healthResp>>

\* with open(meta_path, "w") as f: f.write(...)
write_meta(r) ==
  /\ pc[r] = "write_meta"
  /\ LET path == MetaPath(item_id[r][1]) IN
     \E outcome \in {"ok", "open", "write"} :
       CASE outcome = "ok" ->
              /\ fs' = Put(fs, path, File(MetaText(item_id[r][1], req[r][1])))
              /\ Return(r, "write_meta", None)
              /\ UNCHANGED exc
         [] outcome = "open" -> RaiseLocal(r, "write_meta:open", fs)
         [] outcome = "write" -> RaiseLocal(r, "write_meta:write", Put(fs, path, Partial))
  /\ UNCHANGED <<config, bucket, minted, req, item_id, healthResp>>

(***************************************************************************)
(* The S3 branch (src/app.py 151-186).                                     *)
(***************************************************************************)
\* what a boto3 call can raise: the two classes the handler names, and any other
ExcClasses == {"BotoCoreError", "ClientError", "Exception"}
\* except (BotoCoreError, ClientError)
Caught(cls) == cls \in {"BotoCoreError", "ClientError"}

\* a call inside the try block raised e
RaiseS3(r, e) ==
  /\ exc' = [exc EXCEPT ![r] = Some(e)]
  /\ bucket' = bucket
  /\ Respond(r, IF Caught(e.cls) THEN S3Failed(e) ELSE InternalServerError)

\* s3_put_fileobj(pdf_key, file, "application/pdf") (src/app.py 83-90)
s3_put_fileobj(r) ==
  /\ pc[r] = "s3_put_fileobj"
  /\ \/ /\ bucket' = Put(bucket, PdfKey(item_id[r][1], Original(req[r][1])),
                         Object(req[r][1].file[1].stream, "application/pdf"))
        /\ Return(r, "s3_put_fileobj", None)
        /\ UNCHANGED exc
     \/ \E cls \in ExcClasses : RaiseS3(r, [cls |-> cls, at |-> "s3_put_fileobj"])
  /\ UNCHANGED <<config, fs, minted, req, item_id, healthResp>>

\* s3_put_bytes(meta_key, meta, "text/plain; charset=utf-8") (src/app.py 72-80)
s3_put_bytes(r) ==
  /\ pc[r] = "s3_put_bytes"
  /\ \/ /\ bucket' = Put(bucket, MetaKey(item_id[r][1]),
                         Object(MetaText(item_id[r][1], req[r][1]), "text/plain; charset=utf-8"))
        /\ Return(r, "s3_put_bytes", None)
        /\ UNCHANGED exc
     \/ \E cls \in ExcClasses : RaiseS3(r, [cls |-> cls, at |-> "s3_put_bytes"])
  /\ UNCHANGED <<config, fs, minted, req, item_id, healthResp>>

\* faulty variant: a failure to sign is not caught
PresignedRaises(signed, key) == IF signed THEN [ret |-> Some(key), raised |-> FALSE]
                                ELSE [ret |-> None, raised |-> TRUE]
\* s3_presigned_get (src/app.py 93-102): the URL, or None when signing raises
Presigned(signed, key) == IF signed THEN [ret |-> Some(key), raised |-> FALSE]
                          ELSE [ret |-> None, raised |-> FALSE]

\* presigned = s3_presigned_get(pdf_key, 3600) and the 201
s3_presigned_get(r) ==
  /\ pc[r] = "s3_presigned_get"
  /\ \E signed \in BOOLEAN :
       LET out == Presigned(signed, PdfKey(item_id[r][1], Original(req[r][1]))) IN
         IF out.raised
         THEN RaiseS3(r, [cls |-> "Exception", at |-> "s3_presigned_get"])
         ELSE /\ Return(r, "s3_presigned_get", out.ret)
              /\ exc' = [exc EXCEPT ![r] = IF signed THEN None
                                           ELSE Some([cls |-> "Exception", at |-> "s3_presigned_get"])]
              /\ UNCHANGED bucket
  /\ UNCHANGED <<config, fs, minted, req, item_id, healthResp>>

(***************************************************************************)
(* The process dies and is started again: the requests in flight get no    *)
(* response, the module level code (src/app.py 20-38) runs again on the    *)
(* same environment, and what was stored stays.                            *)
(***************************************************************************)
Crash ==
  /\ \E r \in Reqs : pc[r] \notin {"idle", "done"}
  /\ fs' = MakeDirs(fs, UPLOAD_DIR)
  /\ pc' = [r \in Reqs |-> "idle"]
  /\ req' = [r \in Reqs |-> None]
  /\ item_id' = [r \in Reqs |-> None]
  /\ exc' = [r \in Reqs |-> None]
  /\ resp' = [r \in Reqs |-> None]
  /\ UNCHANGED <<config, bucket, minted, healthResp>>

(***************************************************************************)
(* Specifications.                                                         *)
(***************************************************************************)
\* concurrent uploads in both storage modes, with crashes; GET /api/health
\* touches nothing an upload reads or writes and is left to SpecOne and SpecBoot
Init == Boot({CompleteEnv, EmptyEnv}, {TRUE})

Handle(r) ==
  \/ upload(r)
  \/ makedirs(r)
  \/ save(r)
  \/ write_meta(r)
  \/ s3_put_fileobj(r)
  \/ s3_put_bytes(r)
  \/ s3_presigned_get(r)

Next ==
  \/ Crash
  \/ \E r \in Reqs : \E q \in FewRequests : Receive(r, q)
  \/ \E r \in Reqs : Handle(r)

Spec == Init /\ [][Next]_vars

\* one request, drawn from all the submissions, handled alone
NextOne ==
  \/ health
  \/ pc[1] = "idle" /\ \E q \in Requests : Receive(1, q)
  \/ Handle(1)

SpecOne == Init /\ [][NextOne]_vars

\* every environment the process can boot in, requests handled one at a time
InitBoot == Boot(Envs, BOOLEAN)

NextBoot ==
  \/ health
  \/ \E q \in FewRequests : Receive(1, q)
  \/ Handle(1)

SpecBoot == InitBoot /\ [][NextBoot]_vars

(***************************************************************************)
(* What the claims speak of.                                               *)
(***************************************************************************)
PdfExt == <<".", "pdf">>
InputPdf == <<"input", ".", "pdf">>
MetaTxt == <<"meta", ".", "txt">>
\* the request r has been through parsing and validation
Validated(r) == pc[r] \notin {"idle", "upload"}
Done(r) == pc[r] = "done"
Submitted(r) == req[r][1]
\* the body is over MAX_FILE_MB * 1024 * 1024 bytes
OverLimit(q) == q.content_length > MAX_FILE_MB * 1024 * 1024
\* a form field is absent or holds white space only
Blank(v) == v = None \/ \A i \in 1..Len(v[1]) : v[1][i] = " "
\* a form field as submitted, the empty string standing for an absent one
Raw(v) == IF v = None THEN <<>> ELSE v[1]
\* nothing is stored: no identifier namespace exists on disk or in the bucket
NothingStored ==
  /\ DOMAIN bucket = {}
  /\ \A p \in DOMAIN fs : Len(p) <= Len(UPLOAD_DIR)
\* the namespace of id holds the file artifact / the metadata artifact
HasPdf(id) == IF USE_S3 THEN <<"uploads", id, InputPdf>> \in DOMAIN bucket
              ELSE UPLOAD_DIR \o <<id, InputPdf>> \in DOMAIN fs
HasMeta(id) == IF USE_S3 THEN <<"uploads", id, MetaTxt>> \in DOMAIN bucket
               ELSE UPLOAD_DIR \o <<id, MetaTxt>> \in DOMAIN fs
\* the stored metadata text of id
MetaOf(id) == IF USE_S3 THEN bucket[<<"uploads", id, MetaTxt>>].Body
              ELSE fs[UPLOAD_DIR \o <<id, MetaTxt>>].data
\* the value of key k in the metadata text m
ValueOf(m, k) == m[CHOOSE i \in 1..Len(m) : m[i][1] = k][2]
\* no storage call of request r failed
NoStorageFailure(r) == exc[r] = None \/ exc[r][1].at = "s3_presigned_get"

(***************************************************************************)
(* C3 as stated: a submission whose name or email is empty after trimming, *)
(* or whose file part is absent, is answered 400, no identifier is         *)
(* generated and nothing is stored.                                        *)
(***************************************************************************)
C3_Original ==
  \A r \in Reqs :
    (Validated(r)
       /\ (Blank(Submitted(r).form.name) \/ Blank(Submitted(r).form.email)
             \/ Submitted(r).file = None))
    => /\ Done(r)
       /\ resp[r][1].status = 400
       /\ item_id[r] = None
       /\ minted = {}
       /\ NothingStored

(***************************************************************************)
(* C3 amended: a submission within the size limit whose name or email is   *)
(* empty after trimming, or whose file part is absent, is answered 400     *)
(* with the required-fields error whatever its file name is (the check     *)
(* comes before the extension check), no identifier is generated and       *)
(* nothing is stored.                                                      *)
(***************************************************************************)
C3_MissingRequiredRejected ==
  \A r \in Reqs :
    (Validated(r) /\ ~OverLimit(Submitted(r))
       /\ (Blank(Submitted(r).form.name) \/ Blank(Submitted(r).form.email)
             \/ Submitted(r).file = None))
    => /\ Done(r)
       /\ resp[r][1].status = 400
       /\ resp[r][1].error = "name, email, file required"
       /\ item_id[r] = None
       /\ minted = {}
       /\ NothingStored

\* a name of white space only, with a file of a disallowed type, was rejected
\* for the missing field
C3_Witness ==
  \E r \in Reqs :
    /\ Done(r)
    /\ Submitted(r).form.name = Some(<<" ">>)
    /\ Submitted(r).file # None
    /\ ~allowed_fileext(Original(Submitted(r)))
    /\ resp[r][1].status = 400
    /\ resp[r][1].error = "name, email, file required"

(***************************************************************************)
(* C8: a request whose body exceeds MAX_FILE_MB * 1024 * 1024 bytes is     *)
(* answered 413 whatever its fields and file name are; no identifier is    *)
(* generated and nothing is stored.                                        *)
(***************************************************************************)
C8_OverLimitRejected ==
  \A r \in Reqs :
    (Validated(r) /\ OverLimit(Submitted(r)))
    => /\ Done(r)
       /\ resp[r][1].status = 413
       /\ item_id[r] = None
       /\ minted = {}
       /\ NothingStored

\* an otherwise valid submission one byte over the limit was answered 413
C8_Witness ==
  \E r \in Reqs :
    /\ Done(r)
    /\ Submitted(r).content_length = MAX_CONTENT_LENGTH + 1
    /\ ~Blank(Submitted(r).form.name) /\ ~Blank(Submitted(r).form.email)
    /\ Submitted(r).file = FileOf(<<"a", ".", "pdf">>)
    /\ resp[r][1].status = 413

(***************************************************************************)
(* C2 as stated, for a submission within the size limit: when the file     *)
(* name the client sent has an extension other than .pdf (compared case-   *)
(* insensitively) or none, no identifier is generated, nothing is stored   *)
(* and the response is 400.                                                *)
(***************************************************************************)
C2_Original ==
  \A r \in Reqs :
    (Validated(r) /\ ~OverLimit(Submitted(r)) /\ Submitted(r).file # None
       /\ Lower(SplitExt(Submitted(r).file[1].filename)) # PdfExt)
    => /\ item_id[r] = None
       /\ NothingStored
       /\ Done(r) => resp[r][1].status = 400

(***************************************************************************)
(* C2 amended: for a submission within the size limit, when the file name  *)
(* left by secure_filename is empty, has no extension or has an extension  *)
(* other than .pdf (compared case-insensitively), the response is 400, no  *)
(* identifier is generated and nothing is stored.                          *)
(***************************************************************************)
C2_SanitizedExtRejected ==
  \A r \in Reqs :
    (Validated(r) /\ ~OverLimit(Submitted(r)) /\ Submitted(r).file # None
       /\ Lower(SplitExt(secure_filename(Submitted(r).file[1].filename))) # PdfExt)
    => /\ Done(r)
       /\ resp[r][1].status = 400
       /\ item_id[r] = None
       /\ minted = {}
       /\ NothingStored

\* a file whose sanitized name has an extension that is not .pdf was rejected
\* for its type
C2_Witness ==
  \E r \in Reqs :
    /\ Done(r)
    /\ Submitted(r).file # None
    /\ SplitExt(Original(Submitted(r))) \notin {<<>>, PdfExt}
    /\ resp[r][1].status = 400
    /\ resp[r][1].error = "Only PDF files allowed"
    /\ NothingStored

(***************************************************************************)
(* C1 as stated, its conditions read as the handler reads them (fields     *)
(* non-empty after trimming, a sanitized file name ending in .pdf, a body  *)
(* within the limit, no storage call failing): the response is 201, the    *)
(* namespace of the returned id holds input.pdf and meta.txt, and the      *)
(* metadata holds the name, email, company and file name exactly as        *)
(* submitted.                                                              *)
(***************************************************************************)
Acceptable(q) ==
  /\ ~OverLimit(q)
  /\ ~Blank(q.form.name) /\ ~Blank(q.form.email)
  /\ q.file # None
  /\ Lower(SplitExt(secure_filename(q.file[1].filename))) = PdfExt

\* C1 as stated: 201, both artifacts, and the values exactly as submitted
C1_Original ==
  \A r \in Reqs :
    (Done(r) /\ Acceptable(Submitted(r)) /\ NoStorageFailure(r))
    => /\ resp[r][1].status = 201
       /\ resp[r][1].id # None
       /\ LET id == resp[r][1].id[1]
              q == Submitted(r)
          IN /\ HasPdf(id) /\ HasMeta(id)
             /\ ValueOf(MetaOf(id), "name") = Raw(q.form.name)
             /\ ValueOf(MetaOf(id), "email") = Raw(q.form.email)
             /\ ValueOf(MetaOf(id), "company") = Raw(q.form.company)
             /\ ValueOf(MetaOf(id), "original_filename") = q.file[1].filename

(***************************************************************************)
(* C1 amended: for a submission within the size limit whose name and email *)
(* are non-empty after trimming and whose sanitized file name has a .pdf   *)
(* extension, in either storage mode, when no storage call fails the       *)
(* response is 201, the namespace of the returned id holds input.pdf and   *)
(* meta.txt, and the metadata holds the trimmed name, email and company    *)
(* and the sanitized file name.                                            *)
(***************************************************************************)
C1_ValidUploadStored ==
  \A r \in Reqs :
    (Done(r) /\ Acceptable(Submitted(r)) /\ NoStorageFailure(r))
    => /\ resp[r][1].status = 201
       /\ resp[r][1].id # None
       /\ LET id == resp[r][1].id[1]
              q == Submitted(r)
          IN /\ HasPdf(id) /\ HasMeta(id)
             /\ ValueOf(MetaOf(id), "id") = id
             /\ ValueOf(MetaOf(id), "name") = RStrip(LStrip(Raw(q.form.name)))
             /\ ValueOf(MetaOf(id), "email") = RStrip(LStrip(Raw(q.form.email)))
             /\ ValueOf(MetaOf(id), "company") = RStrip(LStrip(Raw(q.form.company)))
             /\ ValueOf(MetaOf(id), "original_filename") = secure_filename(q.file[1].filename)

\* an upload was answered 201 whose name needed trimming and differs from
\* its email
C1_Witness ==
  \E r \in Reqs :
    /\ Done(r)
    /\ resp[r][1].status = 201
    /\ HasPdf(resp[r][1].id[1]) /\ HasMeta(resp[r][1].id[1])
    /\ Submitted(r).form.name = Some(<<" ", "j">>)
    /\ ValueOf(MetaOf(resp[r][1].id[1]), "name") = <<"j">>

(***************************************************************************)
(* C5 as stated, "absent" read as unset or empty: health reports "s3"      *)
(* exactly when all four settings are present, and "local" otherwise.      *)
(***************************************************************************)
AllFourSet == \A i \in 1..Len(Settings) : env[Settings[i]] \notin {None, Some("")}

\* C5 as stated: "s3" exactly when the four settings are present
C5_Original ==
  healthResp # None =>
    healthResp[1].storage_mode = (IF AllFourSet THEN "s3" ELSE "local")

(***************************************************************************)
(* C5 amended: the storage mode is fixed at startup from the four settings *)
(* and from whether boto3 could be imported.  When a setting is unset or   *)
(* empty, or boto3 is missing, health reports "local" and every successful *)
(* upload is written to the local directory tree and nothing to the        *)
(* bucket; when all four are non-empty and boto3 is there, health reports  *)
(* "s3" and every successful upload is written to the bucket and nothing   *)
(* to the local tree; the mode never changes between requests.             *)
(***************************************************************************)
ModeAtBoot == IF AllFourSet /\ boto3 THEN "s3" ELSE "local"

C5_ModeNow ==
  /\ healthResp # None => healthResp[1].storage_mode = ModeAtBoot
  /\ ModeAtBoot = "local" => DOMAIN bucket = {}
  /\ ModeAtBoot = "s3" => \A p \in DOMAIN fs : Len(p) <= Len(UPLOAD_DIR)
  /\ \A r \in Reqs :
       (Done(r) /\ resp[r][1].status = 201)
       => /\ resp[r][1].storage = ModeAtBoot
          /\ IF ModeAtBoot = "s3"
             THEN {<<"uploads", resp[r][1].id[1], InputPdf>>,
                   <<"uploads", resp[r][1].id[1], MetaTxt>>} \subseteq DOMAIN bucket
             ELSE {UPLOAD_DIR \o <<resp[r][1].id[1], InputPdf>>,
                   UPLOAD_DIR \o <<resp[r][1].id[1], MetaTxt>>} \subseteq DOMAIN fs

\* C5 amended: the mode follows the settings and boto3, and never changes
C5_ModeFixedAtBoot == [](C5_ModeNow) /\ [][USE_S3' = USE_S3 /\ env' = env /\ boto3' = boto3]_vars

\* all four settings are set but boto3 is missing: health has reported
\* "local" and an upload was stored on disk
C5_Witness ==
  /\ AllFourSet /\ ~boto3
  /\ healthResp # None /\ healthResp[1].storage_mode = "local"
  /\ \E r \in Reqs : Done(r) /\ resp[r][1].status = 201 /\ resp[r][1].storage = "local"
                       /\ UPLOAD_DIR \o <<resp[r][1].id[1], MetaTxt>> \in DOMAIN fs

(***************************************************************************)
(* C4: in every interleaving of concurrent uploads the identifiers of      *)
(* different requests differ, and every step that changes the disk or the  *)
(* bucket is a step of one request and changes only paths and keys under   *)
(* that request's own identifier.                                          *)
(***************************************************************************)
IdsDiffer ==
  \A r1, r2 \in Reqs :
    (r1 # r2 /\ item_id[r1] # None /\ item_id[r2] # None) => item_id[r1] # item_id[r2]

\* the paths and keys a step creates, rewrites or removes
ChangedPaths ==
  { p \in DOMAIN fs \cup DOMAIN fs' :
      ~(p \in DOMAIN fs /\ p \in DOMAIN fs' /\ fs[p].type = fs'[p].type /\ fs[p].data = fs'[p].data) }
ChangedKeys ==
  { k \in DOMAIN bucket \cup DOMAIN bucket' :
      ~(k \in DOMAIN bucket /\ k \in DOMAIN bucket' /\ bucket[k] = bucket'[k]) }
\* the requests that take the step
Stepping == { r \in Reqs : pc[r] # pc'[r] }

OwnNamespaceOnly ==
  /\ \A p \in ChangedPaths :
       \E r \in Stepping :
         /\ item_id'[r] # None
         /\ Len(p) > Len(UPLOAD_DIR)
         /\ SubSeq(p, 1, Len(UPLOAD_DIR) + 1) = UPLOAD_DIR \o <<item_id'[r][1]>>
  /\ \A k \in ChangedKeys :
       \E r \in Stepping :
         /\ item_id'[r] # None
         /\ Len(k) > 2
         /\ SubSeq(k, 1, 2) = <<"uploads", item_id'[r][1]>>
  /\ (ChangedPaths # {} \/ ChangedKeys # {}) => Cardinality(Stepping) = 1

\* C4: identifiers differ and every write stays in the writer's namespace
C4_Isolation == [](IdsDiffer) /\ [][OwnNamespaceOnly]_vars

\* two uploads are in flight at once, each with its file stored and its
\* metadata still to write
C4_Witness ==
  \E r1, r2 \in Reqs :
    /\ r1 # r2
    /\ pc[r1] \in {"write_meta", "s3_put_bytes"}
    /\ pc[r2] \in {"write_meta", "s3_put_bytes"}
    /\ HasPdf(item_id[r1][1]) /\ HasPdf(item_id[r2][1])

(***************************************************************************)
(* C6 as stated: in S3 mode a failure of the file upload or of the         *)
(* metadata upload ends the request with 500 and the JSON body             *)
(* {status: "error", error, detail}; the call is not retried, and when the *)
(* metadata upload failed the uploaded file object stays in the bucket.    *)
(***************************************************************************)
UploadFailed(r) == exc[r] # None /\ exc[r][1].at \in {"s3_put_fileobj", "s3_put_bytes"}

\* C6 as stated: a failed upload call is answered 500 with the JSON error body
C6_Claim ==
  \A r \in Reqs :
    (USE_S3 /\ UploadFailed(r))
    => /\ Done(r)
       /\ resp[r][1].status = 500
       /\ resp[r][1].json
       /\ resp[r][1].state = "error"
       /\ resp[r][1].error # ""
       /\ resp[r][1].detail # None
       /\ exc[r][1].at = "s3_put_bytes" => HasPdf(item_id[r][1]) /\ ~HasMeta(item_id[r][1])

(***************************************************************************)
(* C7: in S3 mode, when both uploads succeeded and signing the URL failed, *)
(* the response is 201 with status "ok", the id, pdf_key and meta_key, and *)
(* a null pdf_url, and both objects are in the bucket.                     *)
(***************************************************************************)
PresignFailed(r) == exc[r] # None /\ exc[r][1].at = "s3_presigned_get"

\* C7: a failure to sign the URL still gives 201, with pdf_url null
C7_PresignFailureNotFatal ==
  \A r \in Reqs :
    (USE_S3 /\ PresignFailed(r))
    => /\ Done(r)
       /\ resp[r][1].status = 201
       /\ resp[r][1].state = "ok"
       /\ resp[r][1].id = item_id[r]
       /\ resp[r][1].pdf = Some(<<"uploads", item_id[r][1], InputPdf>>)
       /\ resp[r][1].meta = Some(<<"uploads", item_id[r][1], MetaTxt>>)
       /\ resp[r][1].pdf_url = None
       /\ HasPdf(item_id[r][1]) /\ HasMeta(item_id[r][1])

\* a request whose URL could not be signed was answered 201 without a URL
C7_Witness ==
  \E r \in Reqs :
    /\ USE_S3 /\ PresignFailed(r) /\ Done(r)
    /\ resp[r][1].status = 201 /\ resp[r][1].pdf_url = None
    /\ HasPdf(item_id[r][1]) /\ HasMeta(item_id[r][1])

(***************************************************************************)
(* C9: in local mode a failure of the directory creation, of the file      *)
(* write or of the metadata write ends the request with 500, and what was  *)
(* written under the identifier's directory before the failure is still    *)
(* there.                                                                  *)
(***************************************************************************)
OnDisk(id, name) == UPLOAD_DIR \o <<id, name>> \in DOMAIN fs
Complete(id, name) == fs[UPLOAD_DIR \o <<id, name>>].data # <<"partial">>

\* C9: a local storage failure gives 500 and removes nothing
C9_LocalFailureLeavesFiles ==
  \A r \in Reqs :
    (~USE_S3 /\ exc[r] # None)
    => /\ Done(r)
       /\ resp[r][1].status = 500
       /\ LET id == item_id[r][1]
              at == exc[r][1].at
          IN /\ at # "makedirs" => UPLOAD_DIR \o <<id>> \in DOMAIN fs
             /\ at = "save:write" => OnDisk(id, InputPdf)
             /\ at \in {"write_meta:open", "write_meta:write"}
                  => OnDisk(id, InputPdf) /\ Complete(id, InputPdf)
             /\ at = "write_meta:write" => OnDisk(id, MetaTxt)

\* the metadata write failed half way: the request got 500 and its
\* directory holds the file and the cut metadata
C9_Witness ==
  \E r \in Reqs :
    /\ ~USE_S3 /\ Done(r) /\ exc[r] # None
    /\ exc[r][1].at = "write_meta:write"
    /\ resp[r][1].status = 500
    /\ OnDisk(item_id[r][1], InputPdf) /\ OnDisk(item_id[r][1], MetaTxt)

(***************************************************************************)
(* C10: in every reachable state, in both modes, meta.txt exists under an  *)
(* identifier only if input.pdf exists under it, completely written.       *)
(***************************************************************************)
C10_MetaOnlyAfterFile ==
  \A id \in Ids :
    /\ OnDisk(id, MetaTxt) => OnDisk(id, InputPdf) /\ Complete(id, InputPdf)
    /\ <<"uploads", id, MetaTxt>> \in DOMAIN bucket => <<"uploads", id, InputPdf>> \in DOMAIN bucket

\* after a crash no request is in flight while one identifier holds a file
\* without metadata and another a complete record
C10_Witness ==
  /\ \A r \in Reqs : pc[r] = "idle"
  /\ \E id \in Ids : HasPdf(id) /\ ~HasMeta(id)
  /\ \E id \in Ids : HasPdf(id) /\ HasMeta(id)
====
